---- MODULE Spec2Model ----
(***************************************************************************)
(* Model of heredity.py: exact inference by enumeration over a family      *)
(* tree.  The state is that of main(): the loaded population, the          *)
(* probabilities table, the position of the three nested loops, the last   *)
(* joint probability, and the outcome of normalize.                        *)
(*                                                                         *)
(* Numbers.  Every probability literal of the program has two decimal      *)
(* places (0.5 = 0.50), so every value the program computes before         *)
(* normalize is a finite decimal.  A decimal is modelled exactly as        *)
(* [m, e], meaning m * 100^(-e), where m is a natural number written as a  *)
(* little-endian sequence of base-100 limbs (products of probabilities do  *)
(* not fit a machine integer).  Python's float rounding is not modelled:   *)
(* +, -, * are exact, and / yields the exact quotient [num, den].          *)
(***************************************************************************)
EXTENDS Integers, Sequences, FiniteSets, TLC

\* ------------------------------------------------------------------------
\* Bounds of the model
\* ------------------------------------------------------------------------
MaxPeople == 3        \* largest population that is enumerated
MaxMass == 1          \* largest bucket value of the tables normalize is tried on

\* ------------------------------------------------------------------------
\* Exact decimal arithmetic (the program's float operators)
\* ------------------------------------------------------------------------
Base == 100

RECURSIVE Strip(_)
\* drop the leading (most significant) zero limbs
Strip(a) ==
    IF a = <<>> THEN <<>>
    ELSE IF a[Len(a)] = 0 THEN Strip(SubSeq(a, 1, Len(a) - 1))
    ELSE a

RECURSIVE ToLimbs(_)
ToLimbs(n) ==
    IF n = 0 THEN <<>> ELSE <<n % Base>> \o ToLimbs(n \div Base)

RECURSIVE Shift(_, _)
\* a * Base^k
Shift(a, k) ==
    IF k = 0 THEN a ELSE <<0>> \o Shift(a, k - 1)

RECURSIVE AddL(_, _, _)
AddL(a, b, c) ==
    IF a = <<>> /\ b = <<>> THEN (IF c = 0 THEN <<>> ELSE <<c>>)
    ELSE LET x == IF a = <<>> THEN 0 ELSE Head(a)
             y == IF b = <<>> THEN 0 ELSE Head(b)
             s == x + y + c
         IN  <<s % Base>> \o AddL(IF a = <<>> THEN <<>> ELSE Tail(a),
                                  IF b = <<>> THEN <<>> ELSE Tail(b),
                                  s \div Base)

RECURSIVE SubL(_, _, _)
\* a - b - c for a >= b + c
SubL(a, b, c) ==
    IF a = <<>> THEN <<>>
    ELSE LET y == IF b = <<>> THEN 0 ELSE Head(b)
             s == Head(a) - y - c
         IN  <<(s + Base) % Base>> \o SubL(Tail(a),
                                           IF b = <<>> THEN <<>> ELSE Tail(b),
                                           IF s < 0 THEN 1 ELSE 0)

RECURSIVE MulSmallL(_, _, _)
\* a * k + c for one limb k
MulSmallL(a, k, c) ==
    IF a = <<>> THEN ToLimbs(c)
    ELSE LET s == Head(a) * k + c
         IN  <<s % Base>> \o MulSmallL(Tail(a), k, s \div Base)

RECURSIVE MulL(_, _)
MulL(a, b) ==
    IF b = <<>> THEN <<>>
    ELSE AddL(MulSmallL(a, Head(b), 0), Shift(MulL(a, Tail(b)), 1), 0)

RECURSIVE CmpL(_, _)
\* -1, 0, 1 as a < b, a = b, a > b; both stripped
CmpL(a, b) ==
    IF Len(a) # Len(b) THEN (IF Len(a) < Len(b) THEN -1 ELSE 1)
    ELSE IF a = <<>> THEN 0
    ELSE IF a[Len(a)] # b[Len(b)] THEN (IF a[Len(a)] < b[Len(b)] THEN -1 ELSE 1)
    ELSE CmpL(SubSeq(a, 1, Len(a) - 1), SubSeq(b, 1, Len(b) - 1))

RECURSIVE Canon(_)
\* the unique representation of a decimal: no leading zero limb, and no
\* trailing zero limb while the exponent is positive
Canon(d) ==
    LET s == Strip(d.m)
    IN  IF s = <<>> THEN [m |-> <<>>, e |-> 0]
        ELSE IF d.e > 0 /\ Head(s) = 0 THEN Canon([m |-> Tail(s), e |-> d.e - 1])
        ELSE [m |-> s, e |-> d.e]

\* the decimal n * 100^(-e): Dec(96, 1) is 0.96, Dec(1, 0) is 1
Dec(n, e) == Canon([m |-> ToLimbs(n), e |-> e])

Zero == Dec(0, 0)
One == Dec(1, 0)

MaxOf(x, y) == IF x > y THEN x ELSE y

\* mantissa of d at exponent e >= d.e
Align(d, e) == Strip(Shift(d.m, e - d.e))

\* Python a + b
DAdd(a, b) ==
    LET e == MaxOf(a.e, b.e)
    IN  Canon([m |-> AddL(Align(a, e), Align(b, e), 0), e |-> e])

\* Python a - b, used for 1 - prob only (a >= b)
DSub(a, b) ==
    LET e == MaxOf(a.e, b.e)
    IN  Canon([m |-> SubL(Align(a, e), Align(b, e), 0), e |-> e])

\* Python a * b
DMul(a, b) == Canon([m |-> MulL(a.m, b.m), e |-> a.e + b.e])

\* a <= b
DLeq(a, b) ==
    LET e == MaxOf(a.e, b.e)
    IN  CmpL(Align(a, e), Align(b, e)) <= 0

\* Python a / b for b # 0: the exact quotient, kept as a fraction
DDiv(a, b) == [num |-> a, den |-> b]

\* arithmetic on quotients, for reading the normalized tables
QEq(x, y) == DMul(x.num, y.den) = DMul(y.num, x.den)
QLeq(x, y) == DLeq(DMul(x.num, y.den), DMul(y.num, x.den))
QAdd(x, y) ==
    [num |-> DAdd(DMul(x.num, y.den), DMul(y.num, x.den)),
     den |-> DMul(x.den, y.den)]
QOf(d) == [num |-> d, den |-> One]

\* ------------------------------------------------------------------------
\* Constant tables of the program
\* ------------------------------------------------------------------------
None == "None"

\* PROBS with another trait table for one copy of the gene
PROBS_even_trait ==
    [gene |-> [n \in 0..2 |-> CASE n = 2 -> Dec(1, 1)
                                [] n = 1 -> Dec(3, 1)
                                [] n = 0 -> Dec(96, 1)],
     trait |-> [n \in 0..2 |->
                  [t \in BOOLEAN |->
                     CASE n = 2 -> (IF t THEN Dec(65, 1) ELSE Dec(35, 1))
                       [] n = 1 -> (IF t THEN Dec(50, 1) ELSE Dec(50, 1))
                       [] n = 0 -> (IF t THEN Dec(1, 1) ELSE Dec(99, 1))]],
     mutation |-> Dec(1, 1)]

PROBS ==
    [gene |-> [n \in 0..2 |-> CASE n = 2 -> Dec(1, 1)
                                [] n = 1 -> Dec(3, 1)
                                [] n = 0 -> Dec(96, 1)],
     trait |-> [n \in 0..2 |->
                  [t \in BOOLEAN |->
                     CASE n = 2 -> (IF t THEN Dec(65, 1) ELSE Dec(35, 1))
                       [] n = 1 -> (IF t THEN Dec(56, 1) ELSE Dec(44, 1))
                       [] n = 0 -> (IF t THEN Dec(1, 1) ELSE Dec(99, 1))]],
     mutation |-> Dec(1, 1)]

\* ------------------------------------------------------------------------
\* Populations load_data can return
\* ------------------------------------------------------------------------
\* names of the rows, in file order; "X" and "Y" name nobody
Pool == <<"A", "B", "C", "D", "E">>
Dangling == {"X", "Y"}
Traits == {"True", "False", None}

NamesOf(n) == {Pool[i] : i \in 1..n}

\* the value load_data stores for the trait column
Str(b) == IF b THEN "True" ELSE "False"

\* rows whose mother and father are both blank, or are the two rows before
\* the child's
WellFormedParents(i) ==
    {<<None, None>>}
      \cup (IF i >= 3 THEN {<<Pool[i - 2], Pool[i - 1]>>} ELSE {})

\* rows that break the loader's assumption: a parent that is no row of the
\* file, or exactly one parent
MalformedParents(i) ==
    LET known == {Pool[a] : a \in 1..(i - 1)}
        refs == known \cup Dangling
    IN  ({<<m, f>> : m \in refs, f \in Dangling} \cup {<<m, f>> : m \in Dangling, f \in refs})
          \cup {<<m, None>> : m \in refs}
          \cup {<<None, f>> : f \in refs}

Row(name, parents, trait) ==
    [name |-> name, mother |-> parents[1], father |-> parents[2], trait |-> trait]

RECURSIVE WellFormedPopulations(_)
\* every file of n rows whose rows are well formed
WellFormedPopulations(n) ==
    IF n = 0 THEN {[name \in {} |-> None]}
    ELSE {[name \in NamesOf(n) |->
             IF name = Pool[n] THEN Row(name, pr, t) ELSE pop[name]] :
          pop \in WellFormedPopulations(n - 1), pr \in WellFormedParents(n), t \in Traits}

\* files of n >= 1 rows without observations whose last row is malformed
\* and whose other rows have no parents
MalformedPopulations(n) ==
         {[name \in NamesOf(n) |->
             IF name = Pool[n] THEN Row(name, pr, None)
             ELSE Row(name, <<None, None>>, None)] : pr \in MalformedParents(n)}

Populations ==
    UNION {WellFormedPopulations(n) : n \in 0..MaxPeople}
      \cup UNION {MalformedPopulations(n) : n \in 1..(MaxPeople - 1)}

\* ------------------------------------------------------------------------
\* Pure functions of the program
\* ------------------------------------------------------------------------
\* list(s): the elements of a set in iteration order
ListOf(s) == SelectSeq(Pool, LAMBDA n : n \in s)

Range(f) == {f[i] : i \in DOMAIN f}

RECURSIVE combinations(_, _)
\* itertools.combinations(s, r): the r-element subsequences of s, in
\* lexicographic order of positions
combinations(s, r) ==
    IF r = 0 THEN << <<>> >>
    ELSE IF Len(s) < r THEN <<>>
    ELSE LET rest == combinations(Tail(s), r - 1)
         IN  [i \in 1..Len(rest) |-> <<Head(s)>> \o rest[i]]
               \o combinations(Tail(s), r)

RECURSIVE chain(_, _)
\* itertools.chain.from_iterable(combinations(s, r) for r in range(from, len(s) + 1))
chain(s, from) ==
    IF from > Len(s) THEN <<>>
    ELSE combinations(s, from) \o chain(s, from + 1)

powerset(s) ==
    LET c == chain(ListOf(s), 0)
    IN  [i \in 1..Len(c) |-> Range(c[i])]

get_trait(person, have_trait) == person \in have_trait

get_nbr_genes(person, one_gene, two_genes) ==
    IF person \in two_genes THEN 2
    ELSE IF person \in one_gene THEN 1
    ELSE 0

\* get_parent_prob with the probabilities of 0 and 2 copies exchanged
get_parent_prob_swapped(parent, one_gene, two_genes) ==
    LET nbr_genes == get_nbr_genes(parent, one_gene, two_genes)
    IN  IF nbr_genes = 0 THEN Dec(99, 1)
        ELSE IF nbr_genes = 1 THEN Dec(50, 1)
        ELSE Dec(1, 1)

get_parent_prob(parent, one_gene, two_genes) ==
    LET nbr_genes == get_nbr_genes(parent, one_gene, two_genes)
    IN  IF nbr_genes = 0 THEN Dec(1, 1)
        ELSE IF nbr_genes = 1 THEN Dec(50, 1)
        ELSE Dec(99, 1)

\* person_factor with one of the two ways to inherit one copy left out
person_factor_one_way(people, person, one_gene, two_genes, have_trait) ==
    LET this_genes == get_nbr_genes(person, one_gene, two_genes)
        prob_mother == get_parent_prob(people[person].mother, one_gene, two_genes)
        prob_father == get_parent_prob(people[person].father, one_gene, two_genes)
        gene_prob ==
            IF people[person].mother = None THEN PROBS.gene[this_genes]
            ELSE IF this_genes = 0
                 THEN DMul(DSub(One, prob_mother), DSub(One, prob_father))
            ELSE IF this_genes = 1
                 THEN DMul(DSub(One, prob_mother), prob_father)
            ELSE DMul(prob_father, prob_mother)
        trait == get_trait(person, have_trait)
        trait_prob == PROBS.trait[this_genes][trait]
    IN  DMul(gene_prob, trait_prob)

\* the factor one person contributes to joint_p (body of the loop)
person_factor(people, person, one_gene, two_genes, have_trait) ==
    LET this_genes == get_nbr_genes(person, one_gene, two_genes)
        prob_mother == get_parent_prob(people[person].mother, one_gene, two_genes)
        prob_father == get_parent_prob(people[person].father, one_gene, two_genes)
        gene_prob ==
            IF people[person].mother = None THEN PROBS.gene[this_genes]
            ELSE IF this_genes = 0
                 THEN DMul(DSub(One, prob_mother), DSub(One, prob_father))
            ELSE IF this_genes = 1
                 THEN DAdd(DMul(DSub(One, prob_mother), prob_father),
                           DMul(prob_mother, DSub(One, prob_father)))
            ELSE DMul(prob_father, prob_mother)
        trait == get_trait(person, have_trait)
        trait_prob == PROBS.trait[this_genes][trait]
    IN  DMul(gene_prob, trait_prob)

RECURSIVE joint_loop(_, _, _, _, _, _)
joint_loop(people, rows, one_gene, two_genes, have_trait, joint_p) ==
    IF rows = <<>> THEN joint_p
    ELSE joint_loop(people, Tail(rows), one_gene, two_genes, have_trait,
                    DMul(joint_p, person_factor(people, Head(rows), one_gene,
                                                two_genes, have_trait)))

joint_probability(people, one_gene, two_genes, have_trait) ==
    joint_loop(people, ListOf(DOMAIN people), one_gene, two_genes, have_trait, One)

\* update that adds p to both trait buckets
update_both_traits(probabilities, one_gene, two_genes, have_trait, p) ==
    [person \in DOMAIN probabilities |->
        LET nbr_genes == get_nbr_genes(person, one_gene, two_genes)
        IN  [gene |-> [probabilities[person].gene EXCEPT ![nbr_genes] = DAdd(@, p)],
             trait |-> [v \in BOOLEAN |-> DAdd(probabilities[person].trait[v], p)]]]

update(probabilities, one_gene, two_genes, have_trait, p) ==
    [person \in DOMAIN probabilities |->
        LET nbr_genes == get_nbr_genes(person, one_gene, two_genes)
            trait == get_trait(person, have_trait)
        IN  [gene |-> [probabilities[person].gene EXCEPT ![nbr_genes] = DAdd(@, p)],
             trait |-> [probabilities[person].trait EXCEPT ![trait] = DAdd(@, p)]]]

\* sum(values.values()) of the two kinds of table
gene_sum(values) == DAdd(DAdd(DAdd(Zero, values[2]), values[1]), values[0])
trait_sum(values) == DAdd(DAdd(Zero, values[TRUE]), values[FALSE])

\* normalize_person whose gene total leaves out the bucket of two copies
normalize_person_short_sum(dists) ==
    LET gs == DAdd(DAdd(Zero, dists.gene[1]), dists.gene[0])
        ts == trait_sum(dists.trait)
        gene == [v \in 0..2 |-> DDiv(dists.gene[v], gs)]
        trait == [v \in BOOLEAN |-> DDiv(dists.trait[v], ts)]
    IN  IF gs = Zero THEN [raised |-> TRUE, dists |-> dists]
        ELSE IF ts = Zero THEN [raised |-> TRUE, dists |-> [gene |-> gene, trait |-> dists.trait]]
        ELSE [raised |-> FALSE, dists |-> [gene |-> gene, trait |-> trait]]

\* the two inner loops of normalize for one person; the division raises
\* ZeroDivisionError when this_sum is 0, leaving the tables as they are then
normalize_person(dists) ==
    LET gs == gene_sum(dists.gene)
        ts == trait_sum(dists.trait)
        gene == [v \in 0..2 |-> DDiv(dists.gene[v], gs)]
        trait == [v \in BOOLEAN |-> DDiv(dists.trait[v], ts)]
    IN  IF gs = Zero THEN [raised |-> TRUE, dists |-> dists]
        ELSE IF ts = Zero THEN [raised |-> TRUE, dists |-> [gene |-> gene, trait |-> dists.trait]]
        ELSE [raised |-> FALSE, dists |-> [gene |-> gene, trait |-> trait]]

RECURSIVE normalize_loop(_, _)
normalize_loop(probabilities, persons) ==
    IF persons = <<>> THEN [raised |-> FALSE, probabilities |-> probabilities]
    ELSE LET r == normalize_person(probabilities[Head(persons)])
             done == [probabilities EXCEPT ![Head(persons)] = r.dists]
         IN  IF r.raised THEN [raised |-> TRUE, probabilities |-> done]
             ELSE normalize_loop(done, Tail(persons))

normalize(probabilities) ==
    normalize_loop(probabilities, ListOf(DOMAIN probabilities))

\* fails_evidence that overlooks observations of an absent trait
fails_evidence_true_only(people, names, have_trait) ==
    \E person \in names :
        /\ people[person].trait = "True"
        /\ person \notin have_trait

\* the test at the head of the outer loop of main
fails_evidence(people, names, have_trait) ==
    \E person \in names :
        /\ people[person].trait # None
        /\ people[person].trait # Str(person \in have_trait)

\* ------------------------------------------------------------------------
\* State of main
\* ------------------------------------------------------------------------
VARIABLES
    people,          \* the dictionary load_data returned
    probabilities,   \* person -> gene and trait tables
    pc,              \* "loop", "normalize", "done" (results printed), "raised"
    ti, oi, wi,      \* positions of the loops over have_trait, one_gene, two_genes
    p,               \* the value joint_probability returned last
    calls,           \* history: the calls of joint_probability and update so far
    total,           \* history: the sum of the values joint_probability returned
    raw,             \* history: probabilities at the call of normalize
    exception        \* the exception that ended the run, or None

vars == <<people, probabilities, pc, ti, oi, wi, p, calls, total, raw, exception>>

names == DOMAIN people

InitialProbabilities(pop) ==
    [person \in DOMAIN pop |->
        [gene |-> [v \in 0..2 |-> Zero], trait |-> [v \in BOOLEAN |-> Zero]]]

Init ==
    /\ people \in Populations
    /\ probabilities = InitialProbabilities(people)
    /\ pc = "loop"
    /\ ti = 1 /\ oi = 1 /\ wi = 1
    /\ p = Zero
    /\ calls = <<>>
    /\ total = Zero
    /\ raw = InitialProbabilities(people)
    /\ exception = None

\* the hypothesis the three loops stand at
have_trait == powerset(names)[ti]
one_gene == powerset(names)[oi]
\* the list the innermost loop runs over, with a variant that forgets to
\* remove one_gene
two_genes_list_all == powerset(names)
two_genes_list == powerset(names \ one_gene)
two_genes == two_genes_list[wi]

\* leave the outer loop body: next have_trait, or the end of the loop
NextTrait ==
    /\ oi' = 1 /\ wi' = 1
    /\ IF ti < Len(powerset(names))
       THEN ti' = ti + 1 /\ pc' = "loop"
       ELSE ti' = ti /\ pc' = "normalize"

\* `continue`: the current have_trait contradicts an observation
SkipTrait ==
    /\ pc = "loop"
    /\ fails_evidence(people, names, have_trait)
    /\ NextTrait
    /\ UNCHANGED <<people, probabilities, p, calls, total, raw, exception>>

\* body of the innermost loop: joint_probability, then update
Hypothesis ==
    /\ pc = "loop"
    /\ ~fails_evidence(people, names, have_trait)
    /\ p' = joint_probability(people, one_gene, two_genes, have_trait)
    /\ probabilities' = update(probabilities, one_gene, two_genes, have_trait, p')
    /\ calls' = Append(calls, [have_trait |-> have_trait, one_gene |-> one_gene,
                               two_genes |-> two_genes, p |-> p'])
    /\ total' = DAdd(total, p')
    /\ IF wi < Len(two_genes_list)
       THEN wi' = wi + 1 /\ UNCHANGED <<oi, ti, pc>>
       ELSE IF oi < Len(powerset(names))
       THEN oi' = oi + 1 /\ wi' = 1 /\ UNCHANGED <<ti, pc>>
       ELSE NextTrait
    /\ UNCHANGED <<people, raw, exception>>

\* normalize(probabilities), then the printing of the results
Normalize ==
    /\ pc = "normalize"
    /\ raw' = probabilities
    /\ LET r == normalize(probabilities)
       IN  /\ probabilities' = r.probabilities
           /\ pc' = IF r.raised THEN "raised" ELSE "done"
           /\ exception' = IF r.raised THEN "ZeroDivisionError" ELSE None
    /\ UNCHANGED <<people, ti, oi, wi, p, calls, total>>

Next == SkipTrait \/ Hypothesis \/ Normalize

Spec == Init /\ [][Next]_vars

\* ------------------------------------------------------------------------
\* normalize on its own: applied to any table of two people whose buckets
\* hold 0 .. MaxMass hundredths
\* ------------------------------------------------------------------------
Masses == {Dec(k, 1) : k \in 0..MaxMass}

Tables ==
    [NamesOf(2) -> [gene : [0..2 -> Masses], trait : [BOOLEAN -> Masses]]]

InitNormalize ==
    /\ people = [name \in NamesOf(2) |-> Row(name, <<None, None>>, None)]
    /\ probabilities \in Tables
    /\ pc = "normalize"
    /\ ti = 1 /\ oi = 1 /\ wi = 1
    /\ p = Zero
    /\ calls = <<>>
    /\ total = Zero
    /\ raw = probabilities
    /\ exception = None

NextNormalize == Normalize

SpecNormalize == InitNormalize /\ [][NextNormalize]_vars

\* ------------------------------------------------------------------------
\* Vocabulary of the properties
\* ------------------------------------------------------------------------
RECURSIVE Pow(_, _)
Pow(b, n) == IF n = 0 THEN 1 ELSE b * Pow(b, n - 1)

Triple(c) ==
    [have_trait |-> c.have_trait, one_gene |-> c.one_gene, two_genes |-> c.two_genes]

\* have_trait agrees with every known observation
Agrees(h) ==
    \A person \in names :
        \/ people[person].trait = None
        \/ (people[person].trait = "True") <=> (person \in h)

AdmissibleTraits == {h \in SUBSET names : Agrees(h)}

Admissible(t) ==
    /\ t.have_trait \in AdmissibleTraits
    /\ t.one_gene \subseteq names
    /\ t.two_genes \subseteq names
    /\ t.one_gene \cap t.two_genes = {}

Known == {person \in names : people[person].trait # None}
Observed(person) == people[person].trait = "True"

HasParents(person) == people[person].mother # None \/ people[person].father # None

RECURSIVE Ancestors(_, _)
\* the people reached from person by at most k parent links
Ancestors(person, k) ==
    IF k = 0 \/ person \notin names THEN {}
    ELSE LET ps == {people[person].mother, people[person].father} \cap names
         IN  ps \cup UNION {Ancestors(q, k - 1) : q \in ps}

\* no parents or two parents of the population, and nobody their own ancestor
WellFormed ==
    \A person \in names :
        /\ \/ people[person].mother = None /\ people[person].father = None
           \/ people[person].mother \in names /\ people[person].father \in names
        /\ person \notin Ancestors(person, Cardinality(names))

DanglingParent ==
    \E person \in names :
        \/ people[person].mother \notin names \cup {None}
        \/ people[person].father \notin names \cup {None}

SingleParent ==
    \E person \in names :
        (people[person].mother = None) # (people[person].father = None)

GeneSum3(t) == QAdd(QAdd(t[0], t[1]), t[2])
TraitSum2(t) == QAdd(t[TRUE], t[FALSE])
QOne == QOf(One)
QZero == QOf(Zero)
QTimes(q, d) == [num |-> DMul(q.num, d), den |-> q.den]
Frac(n, d) == [num |-> Dec(n, 0), den |-> Dec(d, 0)]

\* ------------------------------------------------------------------------
\* C1: when the loops of main end, joint_probability and update have been
\* called exactly once for every triple (have_trait, one_gene, two_genes)
\* with have_trait agreeing with the observations and one_gene, two_genes
\* disjoint subsets of the population, and for no other triple; each
\* admissible have_trait has exactly 3^n calls and an inadmissible one none.
\* ------------------------------------------------------------------------
C1_EnumerationExact ==
    pc = "normalize" =>
        LET seen == {Triple(calls[i]) : i \in DOMAIN calls}
            n == Cardinality(names)
        IN  /\ \A t \in seen : Admissible(t)
            /\ Cardinality(seen) = Len(calls)
            /\ \A h \in AdmissibleTraits : \A o \in SUBSET names :
                   \A w \in SUBSET (names \ o) :
                       [have_trait |-> h, one_gene |-> o, two_genes |-> w] \in seen
            /\ \A h \in SUBSET names :
                   Cardinality({i \in DOMAIN calls : calls[i].have_trait = h})
                       = IF Agrees(h) THEN Pow(3, n) ELSE 0

C1_Witness ==
    /\ pc = "normalize"
    /\ Cardinality(names) = 3
    /\ Cardinality(Known) = 2
    /\ Len(calls) = 54

ParentsResolved ==
    \A person \in names :
        \/ people[person].mother = None /\ people[person].father = None
        \/ people[person].mother \in names /\ people[person].father \in names

\* ------------------------------------------------------------------------
\* C2: in a population whose individuals have no parents or two parents of
\* the population the value joint_probability returns is
\* the product over all individuals of gene-count factor times trait
\* factor: the prior for a parentless individual, and for a child
\* (1-pm)(1-pf), (1-pm)pf + pm(1-pf), pm*pf for 0, 1, 2 copies, with pm, pf
\* 0.01, 0.5, 0.99 for a parent with 0, 1, 2 copies.
\* ------------------------------------------------------------------------
ClaimCount(person, c) ==
    IF person \in c.two_genes THEN 2 ELSE IF person \in c.one_gene THEN 1 ELSE 0

ClaimTransmit(k) ==
    CASE k = 0 -> Dec(1, 1) [] k = 1 -> Dec(50, 1) [] k = 2 -> Dec(99, 1)

ClaimPrior(k) ==
    CASE k = 0 -> Dec(96, 1) [] k = 1 -> Dec(3, 1) [] k = 2 -> Dec(1, 1)

ClaimTrait(k, t) ==
    CASE k = 0 -> (IF t THEN Dec(1, 1) ELSE Dec(99, 1))
      [] k = 1 -> (IF t THEN Dec(56, 1) ELSE Dec(44, 1))
      [] k = 2 -> (IF t THEN Dec(65, 1) ELSE Dec(35, 1))

ClaimGeneFactor(person, c) ==
    LET k == ClaimCount(person, c)
        pm == ClaimTransmit(ClaimCount(people[person].mother, c))
        pf == ClaimTransmit(ClaimCount(people[person].father, c))
    IN  IF ~HasParents(person) THEN ClaimPrior(k)
        ELSE CASE k = 0 -> DMul(DSub(One, pm), DSub(One, pf))
               [] k = 1 -> DAdd(DMul(DSub(One, pm), pf), DMul(pm, DSub(One, pf)))
               [] k = 2 -> DMul(pm, pf)

RECURSIVE ClaimProduct(_, _)
ClaimProduct(persons, c) ==
    IF persons = {} THEN One
    ELSE LET person == CHOOSE q \in persons : TRUE
         IN  DMul(DMul(ClaimGeneFactor(person, c),
                       ClaimTrait(ClaimCount(person, c), person \in c.have_trait)),
                  ClaimProduct(persons \ {person}, c))

C2_JointProbabilityIsProduct ==
    (ParentsResolved /\ calls # <<>>) =>
        LET c == calls[Len(calls)]
        IN  /\ p = c.p
            /\ p = ClaimProduct(names, c)

\* a child with one copy whose mother has two copies and whose father has one
C2_Witness ==
    /\ ParentsResolved
    /\ calls # <<>>
    /\ \E person \in names :
          /\ HasParents(person)
          /\ person \in calls[Len(calls)].one_gene
          /\ people[person].mother \in calls[Len(calls)].two_genes
          /\ people[person].father \in calls[Len(calls)].one_gene
          /\ person \in calls[Len(calls)].have_trait

\* ------------------------------------------------------------------------
\* C3: each call of update adds p, for every individual, to the gene bucket
\* of the individual's hypothesized count and to the trait bucket of the
\* individual's hypothesized trait, and changes no other bucket; so when the
\* loops end each bucket holds the sum of p over exactly the calls that
\* assigned the individual to it.
\* ------------------------------------------------------------------------
RECURSIVE SumOf(_, _, _)
\* the sum of the decimals ds[lo] .. ds[hi]
SumOf(ds, lo, hi) ==
    IF lo > hi THEN Zero
    ELSE IF lo = hi THEN ds[lo]
    ELSE LET mid == (lo + hi) \div 2
         IN  DAdd(SumOf(ds, lo, mid), SumOf(ds, mid + 1, hi))

\* the sum of p over the calls whose index is in sel
SumOfCalls(sel) ==
    SumOf([i \in DOMAIN calls |-> IF i \in sel THEN calls[i].p ELSE Zero], 1, Len(calls))

UpdateAddsToOneBucket ==
    LET c == calls'[Len(calls')]
    IN  \A person \in names :
          /\ \A g \in 0..2 :
                probabilities'[person].gene[g] =
                    IF g = ClaimCount(person, c)
                    THEN DAdd(probabilities[person].gene[g], c.p)
                    ELSE probabilities[person].gene[g]
          /\ \A t \in BOOLEAN :
                probabilities'[person].trait[t] =
                    IF t = (person \in c.have_trait)
                    THEN DAdd(probabilities[person].trait[t], c.p)
                    ELSE probabilities[person].trait[t]

BucketsAreSums ==
    \A person \in names :
      /\ \A g \in 0..2 :
            probabilities[person].gene[g] =
                SumOfCalls({i \in DOMAIN calls : ClaimCount(person, calls[i]) = g})
      /\ \A t \in BOOLEAN :
            probabilities[person].trait[t] =
                SumOfCalls({i \in DOMAIN calls : (person \in calls[i].have_trait) = t})

C3_UpdateFrame ==
    /\ [][calls' # calls => UpdateAddsToOneBucket]_vars
    /\ [](pc = "normalize" => BucketsAreSums)

C3_Witness ==
    /\ pc = "normalize"
    /\ Cardinality(names) = 3
    /\ Len(calls) = 216
    /\ p # Zero

\* ------------------------------------------------------------------------
\* C4: at the end of every run, for every individual the gene-count
\* distribution sums to 1 and the trait distribution sums to 1, every entry
\* lies in [0, 1], and the ratios between the accumulated buckets of a table
\* are preserved; no run ends in an exception.
\* ------------------------------------------------------------------------
C4_DistributionsSumToOne ==
    /\ pc # "raised"
    /\ pc = "done" =>
         \A person \in names :
            LET d == probabilities[person]
                r == raw[person]
            IN  /\ QEq(GeneSum3(d.gene), QOne)
                /\ QEq(TraitSum2(d.trait), QOne)
                /\ \A g \in 0..2 : QLeq(QZero, d.gene[g]) /\ QLeq(d.gene[g], QOne)
                /\ \A t \in BOOLEAN : QLeq(QZero, d.trait[t]) /\ QLeq(d.trait[t], QOne)
                /\ \A g, h \in 0..2 :
                       QEq(QTimes(d.gene[g], r.gene[h]), QTimes(d.gene[h], r.gene[g]))
                /\ \A t, u \in BOOLEAN :
                       QEq(QTimes(d.trait[t], r.trait[u]), QTimes(d.trait[u], r.trait[t]))

C4_Witness ==
    /\ pc = "done"
    /\ Cardinality(names) = 3
    /\ Known # {}
    /\ \E person \in names :
          /\ HasParents(person)
          /\ ~QLeq(probabilities[person].gene[1], QZero)
          /\ ~QLeq(QOne, probabilities[person].gene[1])

\* ------------------------------------------------------------------------
\* C5: for an individual whose trait is observed, the accumulated trait
\* bucket of the opposite value is exactly 0 throughout the enumeration, and
\* after normalize the trait distribution is 1 at the observed value and 0
\* at the other.
\* ------------------------------------------------------------------------
C5_ObservedTraitIsCertain ==
    \A person \in Known :
      /\ pc \in {"loop", "normalize"} =>
            probabilities[person].trait[~Observed(person)] = Zero
      /\ pc = "done" =>
            /\ QEq(probabilities[person].trait[Observed(person)], QOne)
            /\ QEq(probabilities[person].trait[~Observed(person)], QZero)
            /\ probabilities[person].trait[~Observed(person)].num = Zero

C5_Witness ==
    /\ pc = "done"
    /\ \E person \in Known : Observed(person) /\ HasParents(person)
    /\ \E person \in Known : ~Observed(person)
    /\ names \ Known # {}

\* ------------------------------------------------------------------------
\* C6: if a mother or father reference names nobody of the population,
\* joint_probability aborts: no probability is returned for any hypothesis
\* and the run produces no distributions.
\* ------------------------------------------------------------------------
C6_DanglingParentAborts ==
    DanglingParent => (calls = <<>> /\ pc # "done")

\* ------------------------------------------------------------------------
\* C7: if an individual has exactly one parent, the run ends in the fatal
\* "malformed relationship" condition and returns no probability or
\* distribution computed for that population.
\* ------------------------------------------------------------------------
C7_SingleParentAborts ==
    SingleParent => (calls = <<>> /\ pc # "done")

\* ------------------------------------------------------------------------
\* C8: normalize applied to beliefs in which some table's total is zero ends
\* in an explicit "no consistent hypothesis" error, not in a generic
\* division-by-zero fault and not in a returned distribution.
\* ------------------------------------------------------------------------
SomeTotalIsZero(t) ==
    \E person \in DOMAIN t :
        gene_sum(t[person].gene) = Zero \/ trait_sum(t[person].trait) = Zero

C8_ZeroTotalIsNamedError ==
    (pc \in {"done", "raised"} /\ SomeTotalIsZero(raw)) =>
        (pc = "raised" /\ exception = "NoConsistentHypothesis")

\* ------------------------------------------------------------------------
\* C9: for a well-formed population without observations, the values
\* joint_probability returned over the whole enumeration sum to 1, and every
\* individual's gene table and trait table total 1 before normalize.
\* ------------------------------------------------------------------------
C9_JointProbabilitiesSumToOne ==
    (pc = "normalize" /\ WellFormed /\ Known = {}) =>
        /\ total = One
        /\ Len(calls) = Pow(2, Cardinality(names)) * Pow(3, Cardinality(names))
        /\ \A person \in names :
              /\ gene_sum(probabilities[person].gene) = One
              /\ trait_sum(probabilities[person].trait) = One

C9_Witness ==
    /\ pc = "normalize"
    /\ WellFormed
    /\ Known = {}
    /\ Cardinality(names) = 3
    /\ \E person \in names : HasParents(person)
    /\ total = One

\* ------------------------------------------------------------------------
\* C10: the scenario of A and B without parents or observations and C with
\* parents A and B.
\* ------------------------------------------------------------------------
Scenario(trait) ==
    people = [name \in {"A", "B", "C"} |->
                 IF name = "C" THEN Row(name, <<"A", "B">>, trait)
                 ELSE Row(name, <<None, None>>, None)]

IsPrior(t) ==
    /\ QEq(t[0], Frac(96, 100))
    /\ QEq(t[1], Frac(3, 100))
    /\ QEq(t[2], Frac(1, 100))

\* C10 as stated: with C observed to have the trait, the normalized
\* gene-count distributions of A and of B equal the unconditional prior.
C10_ParentsKeepPrior ==
    (Scenario("True") /\ pc = "done") =>
        IsPrior(probabilities["A"].gene) /\ IsPrior(probabilities["B"].gene)

\* C10 as amended: with C observed to have the trait, the distributions of A
\* and of B are equal to each other and shifted from the prior toward higher
\* counts, P(0) = 32943648/47402485, P(1) = 1776240/9480497,
\* P(2) = 429049/3646345; they equal the prior when C has no observation.
C10_ParentsPosterior ==
    /\ (Scenario("True") /\ pc = "done") =>
          \A name \in {"A", "B"} :
             LET g == probabilities[name].gene
             IN  /\ QEq(g[0], Frac(32943648, 47402485))
                 /\ QEq(g[1], Frac(1776240, 9480497))
                 /\ QEq(g[2], Frac(429049, 3646345))
                 /\ ~QLeq(Frac(96, 100), g[0])
                 /\ ~QLeq(g[1], Frac(3, 100))
                 /\ ~QLeq(g[2], Frac(1, 100))
    /\ (Scenario(None) /\ pc = "done") =>
          IsPrior(probabilities["A"].gene) /\ IsPrior(probabilities["B"].gene)

C10_Witness ==
    /\ Scenario("True")
    /\ pc = "done"
    /\ QEq(probabilities["C"].trait[TRUE], QOne)

====
